---- MODULE Spec2Model ----
(***************************************************************************)
(* Ledger engine of savings_bank: Account.balance, Transaction.clean/save  *)
(* (models.py) and TransactionService (services.py), run by concurrent     *)
(* request handlers against one transactional store.                       *)
(*                                                                         *)
(* Store model: every ORM query is one atomic step.  Outside               *)
(* db_transaction.atomic() a save is committed at once (autocommit);       *)
(* inside it the rows are staged and become visible to other connections   *)
(* only at the exit of the block.  A connection reads the committed rows   *)
(* plus its own staged rows.  The code takes no row lock anywhere.         *)
(***************************************************************************)
EXTENDS Integers, Sequences, FiniteSets, TLC

\* Bounds of the exploration: the largest amount a request carries and the
\* number of service calls started in a run.
MaxAmount == 2
MaxCalls == 3

\* Two concurrent connections, two accounts (ids as Django assigns them).
Procs == {1, 2}
Accounts == {1, 2}

\* The null of from_account / to_account.
NoAccount == 0

\* The users (ids of auth.User rows), and the value that stands for no user:
\* the result of a failed authentication, the AnonymousUser of a request
\* without a session, the owner of an account id that is not in use.
Users == {1, 2, 3}
NoUser == 0

\* The account ids a request may name: those of the two accounts, owned by
\* users 1 and 2, and the id the next account created gets.
AccountIds == Accounts \cup {3}

\* Amounts a caller may pass: negative, zero and positive ones.
AmountInputs == (0 - 1)..MaxAmount

VARIABLES
    ledger,   \* committed Transaction rows, in insertion (id, created_at) order
    staged,   \* per connection: rows written inside an open atomic block
    pc,       \* per connection: position in the service call
    req,      \* per connection: arguments of the current call
    obj,      \* per connection: the Transaction instance being saved
    leg,      \* per connection: which Transaction.objects.create of the call
    cr,       \* per connection: result of the credits query of Account.balance
    wrote,    \* history: rows of the current call committed so far
    raced,    \* history: another connection has committed a debit on the
              \* paying account of the current call since it started
    last,     \* history: the call that ended, or the balance the view put in
              \* its response, in the latest step, if any
    calls,    \* number of calls started
    clock,    \* the clock auto_now_add reads: it ticks at every insert
    accounts, \* Account rows: the owning user of every account id
    tokens,   \* AuthToken rows in insertion order; the key of a token is
              \* its place in the sequence
    http,     \* per connection: the request a view is serving
    resp      \* history: the response a view returned in the latest step

vars == <<ledger, staged, pc, req, obj, leg, cr, wrote, raced, last, calls,
          clock, accounts, tokens, http, resp>>

NoRow == [account |-> NoAccount, from_account |-> NoAccount,
          to_account |-> NoAccount, amount |-> 0,
          transaction_type |-> "NONE", status |-> "NONE", created_at |-> 0]

NoReq == [op |-> "NONE", account |-> NoAccount, to |-> NoAccount, amount |-> 0,
          as_of |-> 0]

NoCall == [op |-> "NONE", account |-> NoAccount, to |-> NoAccount,
           amount |-> 0, outcome |-> "none", avail |-> 0, wrote |-> 0,
           leg |-> "none", raced |-> FALSE, balance_of |-> NoAccount,
           balance |-> 0, as_of |-> 0, row |-> NoRow]

RECURSIVE SumAmount(_)
SumAmount(rows) ==
    IF rows = <<>> THEN 0 ELSE Head(rows).amount + SumAmount(Tail(rows))

IsCreditAnyAccount(r, a) ==
    \/ r.transaction_type = "DEPOSIT"
    \/ r.transaction_type = "TRANSFER" /\ r.to_account = a

IsCredit(r, a) ==
    /\ r.account = a
    /\ \/ r.transaction_type = "DEPOSIT"
       \/ r.transaction_type = "TRANSFER" /\ r.to_account = a

IsDebit(r, a) ==
    /\ r.account = a
    /\ \/ r.transaction_type = "WITHDRAWAL"
       \/ r.transaction_type = "TRANSFER" /\ r.from_account = a

Credits(rows, a) == SumAmount(SelectSeq(rows, LAMBDA r : IsCredit(r, a)))

Debits(rows, a) == SumAmount(SelectSeq(rows, LAMBDA r : IsDebit(r, a)))

Balance(rows, a) == Credits(rows, a) - Debits(rows, a)

Visible(p) == ledger \o staged[p]

\* An AuthToken row that stands for none.
NoToken == [user |-> NoUser, is_active |-> FALSE]

\* A connection that serves no request of a view.
NoHttp == [view |-> "NONE", hdr |-> 0, user |-> NoUser, key |-> 0,
           tok |-> NoToken, session |-> NoUser, account |-> NoAccount,
           to |-> NoAccount, amount |-> 0, created |-> FALSE]

\* No response in this step.
NoResp == [view |-> "NONE", status |-> 0, error |-> "none", hdr |-> 0,
           user |-> NoUser, key |-> 0, session |-> NoUser,
           account |-> NoAccount, to |-> NoAccount, amount |-> 0,
           created |-> FALSE]

NegativeOnly(m) == m < 0

\* create_deposit, create_withdrawal, create_transfer: if amount <= 0
NotPositive(m) == m <= 0

SameAccountNever(f, t) == FALSE

\* create_transfer: if from_account == to_account
SameAccount(f, t) == f = t

DepositRow(a, m) ==
    [account |-> a, from_account |-> NoAccount, to_account |-> NoAccount,
     amount |-> m, transaction_type |-> "DEPOSIT", status |-> "SUCCESS",
     created_at |-> 0]

WithdrawalRow(a, m) ==
    [account |-> a, from_account |-> NoAccount, to_account |-> NoAccount,
     amount |-> m, transaction_type |-> "WITHDRAWAL", status |-> "SUCCESS",
     created_at |-> 0]

DebitLeg(f, t, m) ==
    [account |-> f, from_account |-> f, to_account |-> t,
     amount |-> m, transaction_type |-> "TRANSFER", status |-> "SUCCESS",
     created_at |-> 0]

CreditLegOnSource(f, t, m) ==
    [account |-> f, from_account |-> f, to_account |-> t,
     amount |-> m, transaction_type |-> "TRANSFER", status |-> "SUCCESS",
     created_at |-> 0]

CreditLeg(f, t, m) ==
    [account |-> t, from_account |-> f, to_account |-> t,
     amount |-> m, transaction_type |-> "TRANSFER", status |-> "SUCCESS",
     created_at |-> 0]

CleanFieldsTransferOnly(r) ==
    IF r.transaction_type = "TRANSFER"
    THEN IF r.from_account = NoAccount \/ r.to_account = NoAccount
         THEN "MissingAccount"
         ELSE IF r.from_account = r.to_account
              THEN "SameAccount"
              ELSE "ok"
    ELSE "ok"

\* Field checks of Transaction.clean: the error raised before any query.
CleanFields(r) ==
    IF r.transaction_type = "TRANSFER"
    THEN IF r.from_account = NoAccount \/ r.to_account = NoAccount
         THEN "MissingAccount"
         ELSE IF r.from_account = r.to_account
              THEN "SameAccount"
              ELSE "ok"
    ELSE IF r.from_account # NoAccount \/ r.to_account # NoAccount
         THEN "MalformedIntent"
         ELSE "ok"

\* The account whose balance Transaction.clean checks for the row.
CheckedAccount(r) ==
    IF r.transaction_type = "TRANSFER" THEN r.from_account ELSE r.account

\* The account whose balance the service checks for the call.
PayingAccount(p) == req[p].account

NoAtomicBlock(p) == FALSE

\* with db_transaction.atomic(): the saves of create_transfer.
InAtomic(p) == req[p].op = "TRANSFER"

InFlight(p) == pc[p] # "idle"

\* The view has the result of the service and is building its response.
InView(p) == pc[p] \in {"view_cr", "view_db", "view2_cr", "view2_db"}

InService(p) == InFlight(p) /\ ~InView(p)

Init ==
    /\ ledger = <<>>
    /\ staged = [p \in Procs |-> <<>>]
    /\ pc = [p \in Procs |-> "idle"]
    /\ req = [p \in Procs |-> NoReq]
    /\ obj = [p \in Procs |-> NoRow]
    /\ leg = [p \in Procs |-> "none"]
    /\ cr = [p \in Procs |-> 0]
    /\ wrote = [p \in Procs |-> 0]
    /\ raced = [p \in Procs |-> FALSE]
    /\ last = NoCall
    /\ calls = 0
    /\ clock = 0
    /\ accounts = [a \in AccountIds |-> IF a \in Accounts THEN a ELSE NoUser]
    /\ tokens = <<>>
    /\ http = [p \in Procs |-> NoHttp]
    /\ resp = NoResp

\* A call starts on connection p.  The connections are interchangeable: a
\* request is served on the first free one.
Begin(p) ==
    /\ ~InFlight(p)
    /\ \A q \in Procs : q < p => InFlight(q)
    /\ calls < MaxCalls
    /\ calls' = calls + 1

\* The record of a call that ends with result res: r its arguments, av the
\* "Available" value of its error message, w the rows it has committed, lg
\* the create it had reached, rc whether a debit of another call raced it.
CallRecord(r, res, av, w, lg, rc) ==
    [op |-> r.op, account |-> r.account, to |-> r.to, amount |-> r.amount,
     outcome |-> res, avail |-> av, wrote |-> w, leg |-> lg, raced |-> rc,
     balance_of |-> NoAccount, balance |-> 0, as_of |-> 0, row |-> NoRow]

\* The connection returns to its idle state.
Reset(p) ==
    /\ pc' = [pc EXCEPT ![p] = "idle"]
    /\ req' = [req EXCEPT ![p] = NoReq]
    /\ obj' = [obj EXCEPT ![p] = NoRow]
    /\ leg' = [leg EXCEPT ![p] = "none"]
    /\ cr' = [cr EXCEPT ![p] = 0]
    /\ wrote' = [wrote EXCEPT ![p] = 0]
    /\ staged' = [staged EXCEPT ![p] = <<>>]

\* A call rejected by the checks at the head of the service method: nothing
\* was read or written.
RejectAtEntry(p, r, err) ==
    /\ last' = CallRecord(r, err, 0, 0, "none", FALSE)
    /\ UNCHANGED <<ledger, staged, pc, req, obj, leg, cr, wrote, raced, clock>>

\* A call that goes on to its first query.
Proceed(p, r, label, row, lg) ==
    /\ pc' = [pc EXCEPT ![p] = label]
    /\ req' = [req EXCEPT ![p] = r]
    /\ obj' = [obj EXCEPT ![p] = row]
    /\ leg' = [leg EXCEPT ![p] = lg]
    /\ last' = NoCall
    /\ UNCHANGED <<ledger, staged, cr, wrote, raced, clock>>

\* raise ValidationError out of a running call: the call ends and an open
\* atomic block is rolled back.
Raise(p, err, av) ==
    /\ last' = CallRecord(req[p], err, av, wrote[p], leg[p], raced[p])
    /\ Reset(p)
    /\ raced' = [raced EXCEPT ![p] = FALSE]
    /\ UNCHANGED <<ledger, calls>>

\* Return of the service method to the view; w rows of the call are
\* committed by now and row is the Transaction instance the view gets back
\* (the credit leg for a transfer).  The view goes on to read the balance
\* for its response.
Return(p, w, row) ==
    /\ last' = CallRecord(req[p], "ok", 0, w, leg[p], raced[p])
    /\ pc' = [pc EXCEPT ![p] = "view_cr"]
    /\ obj' = [obj EXCEPT ![p] = row]
    /\ leg' = [leg EXCEPT ![p] = "none"]
    /\ cr' = [cr EXCEPT ![p] = 0]
    /\ wrote' = [wrote EXCEPT ![p] = 0]
    /\ staged' = [staged EXCEPT ![p] = <<>>]
    /\ UNCHANGED <<req, calls>>

\* Where Transaction.save goes after the field checks of clean().
AfterCleanFields(row) ==
    IF row.transaction_type = "DEPOSIT" THEN "insert" ELSE "clean_cr"

create_deposit(p, a, m) ==
    LET r == [op |-> "DEPOSIT", account |-> a, to |-> NoAccount, amount |-> m,
              as_of |-> 0]
        row == DepositRow(a, m)
    IN /\ Begin(p)
       /\ IF NotPositive(m)
          THEN RejectAtEntry(p, r, "InvalidAmount")
          ELSE IF CleanFields(row) # "ok"
               THEN RejectAtEntry(p, r, CleanFields(row))
               ELSE Proceed(p, r, AfterCleanFields(row), row, "single")

create_withdrawal(p, a, m) ==
    LET r == [op |-> "WITHDRAWAL", account |-> a, to |-> NoAccount, amount |-> m,
              as_of |-> 0]
    IN /\ Begin(p)
       /\ IF NotPositive(m)
          THEN RejectAtEntry(p, r, "InvalidAmount")
          ELSE Proceed(p, r, "svc_cr", NoRow, "single")

TransferEntryErrorAccountsFirst(f, t, m) ==
    IF SameAccount(f, t) THEN "SameAccount"
    ELSE IF NotPositive(m) THEN "InvalidAmount" ELSE "ok"

\* The checks at the head of create_transfer (and, before it, of
\* TransferView.post), in their order: the amount, then the two accounts.
TransferEntryError(f, t, m) ==
    IF NotPositive(m) THEN "InvalidAmount"
    ELSE IF SameAccount(f, t) THEN "SameAccount" ELSE "ok"

create_transfer(p, f, t, m) ==
    LET r == [op |-> "TRANSFER", account |-> f, to |-> t, amount |-> m, as_of |-> 0]
    IN /\ Begin(p)
       /\ IF TransferEntryError(f, t, m) # "ok"
          THEN RejectAtEntry(p, r, TransferEntryError(f, t, m))
          ELSE Proceed(p, r, "svc_cr", NoRow, "none")

\* The account a balance query of the connection is about.
QueriedAccount(p) ==
    IF pc[p] \in {"svc_cr", "svc_db", "svc_msg_cr", "svc_msg_db"}
    THEN PayingAccount(p)
    ELSE IF pc[p] \in {"view_cr", "view_db"}
         THEN req[p].account
         ELSE IF pc[p] \in {"view2_cr", "view2_db"}
              THEN req[p].to
              ELSE CheckedAccount(obj[p])

AfterCreditsStuck(l) == l

AfterCredits(l) ==
    CASE l = "svc_cr" -> "svc_db"
      [] l = "svc_msg_cr" -> "svc_msg_db"
      [] l = "clean_cr" -> "clean_db"
      [] l = "clean_msg_cr" -> "clean_msg_db"
      [] l = "view_cr" -> "view_db"
      [] l = "view2_cr" -> "view2_db"

\* Account.balance, first aggregate query (credits).
balance_credits(p) ==
    /\ pc[p] \in {"svc_cr", "svc_msg_cr", "clean_cr", "clean_msg_cr",
                 "view_cr", "view2_cr"}
    /\ cr' = [cr EXCEPT ![p] = Credits(Visible(p), QueriedAccount(p))]
    /\ pc' = [pc EXCEPT ![p] = AfterCredits(pc[p])]
    /\ last' = NoCall
    /\ UNCHANGED <<ledger, staged, req, obj, leg, wrote, raced, calls, clock>>

BalanceReadCreditsOnly(p) == cr[p]

\* Account.balance, second aggregate query (debits) and the subtraction.
BalanceRead(p) == cr[p] - Debits(Visible(p), QueriedAccount(p))

WithdrawalShortNever(b, m) == FALSE

\* create_withdrawal: if account.balance < amount
WithdrawalShort(b, m) == b < m

\* create_transfer: if from_account.balance < amount
TransferShort(b, m) == b < m

\* _validate_sufficient_balance: if account.balance < self.amount
ValidateShort(b, m) == b < m

ServiceShort(p, b) ==
    IF req[p].op = "WITHDRAWAL"
    THEN WithdrawalShort(b, req[p].amount)
    ELSE TransferShort(b, req[p].amount)

\* The row the service creates first once its sufficiency check has passed.
FirstRow(p) ==
    IF req[p].op = "WITHDRAWAL"
    THEN WithdrawalRow(req[p].account, req[p].amount)
    ELSE DebitLeg(req[p].account, req[p].to, req[p].amount)

\* The sufficiency check of create_withdrawal / create_transfer, and on
\* success Transaction.objects.create up to its first query.
service_check(p) ==
    /\ pc[p] = "svc_db"
    /\ UNCHANGED clock
    /\ IF ServiceShort(p, BalanceRead(p))
       THEN /\ pc' = [pc EXCEPT ![p] = "svc_msg_cr"]
            /\ last' = NoCall
            /\ UNCHANGED <<ledger, staged, req, obj, leg, cr, wrote, raced, calls>>
       ELSE IF CleanFields(FirstRow(p)) # "ok"
            THEN Raise(p, CleanFields(FirstRow(p)), 0)
            ELSE /\ pc' = [pc EXCEPT ![p] = AfterCleanFields(FirstRow(p))]
                 /\ obj' = [obj EXCEPT ![p] = FirstRow(p)]
                 /\ leg' = [leg EXCEPT ![p] =
                              IF req[p].op = "TRANSFER" THEN "debit" ELSE "single"]
                 /\ last' = NoCall
                 /\ UNCHANGED <<ledger, staged, req, cr, wrote, raced, calls>>

\* The f-string of the service's ValidationError reads the balance again.
service_raise(p) ==
    /\ pc[p] = "svc_msg_db"
    /\ UNCHANGED clock
    /\ Raise(p, "InsufficientBalance", BalanceRead(p))

\* Transaction.clean -> _validate_sufficient_balance.
validate_check(p) ==
    /\ pc[p] = "clean_db"
    /\ pc' = [pc EXCEPT ![p] =
                IF ValidateShort(BalanceRead(p), obj[p].amount)
                THEN "clean_msg_cr" ELSE "insert"]
    /\ last' = NoCall
    /\ UNCHANGED <<ledger, staged, req, obj, leg, cr, wrote, raced, calls, clock>>

\* The f-string of _validate_sufficient_balance reads the balance again.
validate_raise(p) ==
    /\ pc[p] = "clean_msg_db"
    /\ UNCHANGED clock
    /\ Raise(p, "InsufficientBalance", BalanceRead(p))

\* History: connection p commits rows; a debit call of another connection,
\* still inside the service, on an account these rows debit has been raced.
Raced(p, rows) ==
    [q \in Procs |->
       IF q = p THEN raced[q]
       ELSE raced[q] \/
            /\ InService(q)
            /\ req[q].op \in {"WITHDRAWAL", "TRANSFER"}
            /\ \E i \in DOMAIN rows : IsDebit(rows[i], req[q].account)]

\* auto_now_add: the insert stamps the row with the time of the insert.
Stamped(r) == [r EXCEPT !.created_at = clock + 1]

\* Transaction.save after clean(): super().save() inserts the row; the
\* service then creates the next row of the call or returns.
save(p) ==
    /\ pc[p] = "insert"
    /\ clock' = clock + 1
    /\ IF InAtomic(p)
       THEN IF leg[p] = "debit"
            THEN LET row == CreditLeg(req[p].account, req[p].to, req[p].amount)
                 IN IF CleanFields(row) # "ok"
                    THEN Raise(p, CleanFields(row), 0)
                    ELSE /\ staged' = [staged EXCEPT ![p] =
                                          Append(@, Stamped(obj[p]))]
                         /\ obj' = [obj EXCEPT ![p] = row]
                         /\ leg' = [leg EXCEPT ![p] = "credit"]
                         /\ pc' = [pc EXCEPT ![p] = AfterCleanFields(row)]
                         /\ last' = NoCall
                         /\ UNCHANGED <<ledger, req, cr, wrote, raced, calls>>
            ELSE /\ staged' = [staged EXCEPT ![p] = Append(@, Stamped(obj[p]))]
                 /\ obj' = [obj EXCEPT ![p] = Stamped(obj[p])]
                 /\ pc' = [pc EXCEPT ![p] = "commit"]
                 /\ last' = NoCall
                 /\ UNCHANGED <<ledger, req, leg, cr, wrote, raced, calls>>
       ELSE /\ ledger' = Append(ledger, Stamped(obj[p]))
            /\ IF leg[p] = "debit"
               THEN LET row == CreditLeg(req[p].account, req[p].to, req[p].amount)
                    IN /\ obj' = [obj EXCEPT ![p] = row]
                       /\ leg' = [leg EXCEPT ![p] = "credit"]
                       /\ pc' = [pc EXCEPT ![p] = AfterCleanFields(row)]
                       /\ wrote' = [wrote EXCEPT ![p] = @ + 1]
                       /\ raced' = Raced(p, <<obj[p]>>)
                       /\ last' = NoCall
                       /\ UNCHANGED <<staged, req, cr, calls>>
               ELSE /\ Return(p, wrote[p] + 1, Stamped(obj[p]))
                    /\ raced' = [Raced(p, <<obj[p]>>) EXCEPT ![p] = FALSE]

\* Exit of the atomic block: the staged rows are committed together, and
\* create_transfer returns.
atomic_exit(p) ==
    /\ pc[p] = "commit"
    /\ ledger' = ledger \o staged[p]
    /\ Return(p, wrote[p] + Len(staged[p]), obj[p])
    /\ raced' = [Raced(p, staged[p]) EXCEPT ![p] = FALSE]
    /\ UNCHANGED clock

\* The balance the view puts in its response: new_balance of DepositView
\* and WithdrawalView, from_account_balance and then to_account_balance of
\* TransferView.  With the last of them the request is answered.
reply(p) ==
    /\ pc[p] \in {"view_db", "view2_db"}
    /\ last' = [CallRecord(req[p], "reply", 0, 0, "none", FALSE)
                  EXCEPT !.balance_of = QueriedAccount(p),
                         !.balance = BalanceRead(p),
                         !.row = obj[p]]
    /\ IF req[p].op = "TRANSFER" /\ pc[p] = "view_db"
       THEN /\ pc' = [pc EXCEPT ![p] = "view2_cr"]
            /\ UNCHANGED <<req, obj, leg, cr, wrote, staged>>
       ELSE Reset(p)
    /\ UNCHANGED <<ledger, raced, calls, clock>>

\* A step of the ledger engine: no view of the token layer takes part.
ApiIdle ==
    /\ resp' = NoResp
    /\ UNCHANGED <<accounts, tokens, http>>

\* Requests served concurrently: any connection may take the next step.
Next ==
    \/ \E p \in Procs, a \in Accounts, m \in AmountInputs : create_deposit(p, a, m) /\ ApiIdle
    \/ \E p \in Procs, a \in Accounts, m \in AmountInputs : create_withdrawal(p, a, m) /\ ApiIdle
    \/ \E p \in Procs, f \in Accounts, t \in Accounts, m \in AmountInputs :
          create_transfer(p, f, t, m) /\ ApiIdle
    \/ \E p \in Procs : balance_credits(p) /\ ApiIdle
    \/ \E p \in Procs : service_check(p) /\ ApiIdle
    \/ \E p \in Procs : service_raise(p) /\ ApiIdle
    \/ \E p \in Procs : validate_check(p) /\ ApiIdle
    \/ \E p \in Procs : validate_raise(p) /\ ApiIdle
    \/ \E p \in Procs : save(p) /\ ApiIdle
    \/ \E p \in Procs : atomic_exit(p) /\ ApiIdle
    \/ \E p \in Procs : reply(p) /\ ApiIdle

Spec == Init /\ [][Next]_vars

\* The steps of connection p after the start of its call: the queries, the
\* checks, the insert, the end of the atomic block and the reply.
Step(p) ==
    \/ balance_credits(p) /\ ApiIdle
    \/ service_check(p) /\ ApiIdle
    \/ service_raise(p) /\ ApiIdle
    \/ validate_check(p) /\ ApiIdle
    \/ validate_raise(p) /\ ApiIdle
    \/ save(p) /\ ApiIdle
    \/ atomic_exit(p) /\ ApiIdle
    \/ reply(p) /\ ApiIdle

\* Requests served concurrently under fair scheduling: the worker of each
\* connection keeps running, so a call that can take its next step
\* eventually takes it.  The services take no lock and wait for nothing
\* (no select_for_update, no retry loop), so no step of a call depends on
\* another connection.
SpecFair == Init /\ [][Next]_vars /\ \A p \in Procs : WF_vars(Step(p))

\* No other connection is inside a call.
Alone(p) == \A q \in Procs \ {p} : ~InFlight(q)

\* Requests served strictly one at a time: a connection steps only while
\* every other connection is idle.
NextSeq ==
    \/ \E p \in Procs, a \in Accounts, m \in AmountInputs :
          Alone(p) /\ create_deposit(p, a, m) /\ ApiIdle
    \/ \E p \in Procs, a \in Accounts, m \in AmountInputs :
          Alone(p) /\ create_withdrawal(p, a, m) /\ ApiIdle
    \/ \E p \in Procs, f \in Accounts, t \in Accounts, m \in AmountInputs :
          Alone(p) /\ create_transfer(p, f, t, m) /\ ApiIdle
    \/ \E p \in Procs : Alone(p) /\ balance_credits(p) /\ ApiIdle
    \/ \E p \in Procs : Alone(p) /\ service_check(p) /\ ApiIdle
    \/ \E p \in Procs : Alone(p) /\ service_raise(p) /\ ApiIdle
    \/ \E p \in Procs : Alone(p) /\ validate_check(p) /\ ApiIdle
    \/ \E p \in Procs : Alone(p) /\ validate_raise(p) /\ ApiIdle
    \/ \E p \in Procs : Alone(p) /\ save(p) /\ ApiIdle
    \/ \E p \in Procs : Alone(p) /\ atomic_exit(p) /\ ApiIdle
    \/ \E p \in Procs : Alone(p) /\ reply(p) /\ ApiIdle

SpecSeq == Init /\ [][NextSeq]_vars

\* The accounts a call with arguments r reads or writes.
Touched(r) == {r.account, r.to} \ {NoAccount}

\* No call in flight on another connection touches an account of S.
DisjointStart(p, S) ==
    \A q \in Procs \ {p} : InFlight(q) => Touched(req[q]) \cap S = {}

\* Requests served concurrently, calls that overlap in time touching
\* disjoint sets of accounts: a call starts only while no call in flight
\* touches one of its accounts, and then its steps and those of the other
\* connection interleave freely.  Calls on one account follow one another.
NextDisjoint ==
    \/ \E p \in Procs, a \in Accounts, m \in AmountInputs :
          DisjointStart(p, {a}) /\ create_deposit(p, a, m) /\ ApiIdle
    \/ \E p \in Procs, a \in Accounts, m \in AmountInputs :
          DisjointStart(p, {a}) /\ create_withdrawal(p, a, m) /\ ApiIdle
    \/ \E p \in Procs, f \in Accounts, t \in Accounts, m \in AmountInputs :
          DisjointStart(p, {f, t}) /\ create_transfer(p, f, t, m) /\ ApiIdle
    \/ \E p \in Procs : Step(p)

SpecDisjoint == Init /\ [][NextDisjoint]_vars

(***************************************************************************)
(* The admin site and the read-only queries.                               *)
(***************************************************************************)

\* What the add form of TransactionAdmin can submit: every field of the
\* model but status, which the form excludes and which therefore keeps the
\* default of the model, PENDING.  created_at is set by the insert.
AdminRows ==
    [account : Accounts,
     from_account : Accounts \cup {NoAccount},
     to_account : Accounts \cup {NoAccount},
     amount : AmountInputs,
     transaction_type : {"DEPOSIT", "WITHDRAWAL", "TRANSFER"},
     status : {"PENDING"},
     created_at : {0}]

\* Transaction.clean on the committed rows: the field checks, then the
\* sufficiency check of a withdrawal or transfer row.
Clean(row) ==
    IF CleanFields(row) # "ok" THEN CleanFields(row)
    ELSE IF /\ row.transaction_type # "DEPOSIT"
            /\ ValidateShort(Balance(ledger, CheckedAccount(row)), row.amount)
         THEN "InsufficientBalance"
         ELSE "ok"

\* The add request of the admin for a row: the form runs clean() and shows
\* its error; save_model then dereferences obj.from_account (an
\* AttributeError when it is null), compares the balance only to flash
\* "Not enough balance", and saves through Transaction.save, which runs
\* clean() again.
AdminOutcome(row) ==
    IF Clean(row) # "ok" THEN Clean(row)
    ELSE IF row.from_account = NoAccount THEN "ServerError" ELSE "ok"

\* TransactionAdmin.save_model behind the add form of the admin site.  The
\* queries of the request are taken in one step.
save_model(p, row) ==
    LET r == [op |-> "ADMIN", account |-> row.account, to |-> row.to_account,
              amount |-> row.amount, as_of |-> 0]
        res == AdminOutcome(row)
    IN /\ Begin(p)
       /\ IF res = "ok"
          THEN /\ ledger' = Append(ledger, Stamped(row))
               /\ clock' = clock + 1
               /\ last' = [CallRecord(r, res, 0, 1, "single", FALSE)
                             EXCEPT !.row = Stamped(row)]
          ELSE /\ last' = [CallRecord(r, res, 0, 0, "none", FALSE)
                             EXCEPT !.row = row]
               /\ UNCHANGED <<ledger, clock>>
       /\ UNCHANGED <<staged, pc, req, obj, leg, cr, wrote, raced>>

\* The change form of TransactionAdmin for the committed row i, submitted
\* with another amount: the form and Transaction.save run clean() on the
\* edited instance against the committed rows, save_model dereferences
\* obj.from_account, and super().save() updates the row in place.  status
\* (excluded from the form) and created_at (auto_now_add) keep their values.
change_model(p, i, m) ==
    LET row == [ledger[i] EXCEPT !.amount = m]
        r == [op |-> "ADMIN_CHANGE", account |-> row.account,
              to |-> row.to_account, amount |-> m, as_of |-> 0]
        res == AdminOutcome(row)
    IN /\ Begin(p)
       /\ i \in DOMAIN ledger
       /\ m # ledger[i].amount
       /\ IF res = "ok"
          THEN ledger' = [ledger EXCEPT ![i] = row]
          ELSE UNCHANGED ledger
       /\ last' = [CallRecord(r, res, 0, 0, "none", FALSE) EXCEPT !.row = row]
       /\ UNCHANGED <<staged, pc, req, obj, leg, cr, wrote, raced, clock>>

\* The rows without the i-th.
Without(rows, i) == SubSeq(rows, 1, i - 1) \o SubSeq(rows, i + 1, Len(rows))

\* The delete view the admin site serves for every registered model: the
\* committed row i is deleted.
delete_model(p, i) ==
    LET r == [op |-> "ADMIN_DELETE", account |-> ledger[i].account,
              to |-> ledger[i].to_account, amount |-> ledger[i].amount,
              as_of |-> 0]
    IN /\ Begin(p)
       /\ i \in DOMAIN ledger
       /\ ledger' = Without(ledger, i)
       /\ last' = [CallRecord(r, "ok", 0, 0, "none", FALSE) EXCEPT !.row = ledger[i]]
       /\ UNCHANGED <<staged, pc, req, obj, leg, cr, wrote, raced, clock>>

\* AccountBalanceView.get: account.balance, answered by reply.
AccountBalanceView(p, a) ==
    /\ Begin(p)
    /\ Proceed(p, [op |-> "BALANCE", account |-> a, to |-> NoAccount,
                   amount |-> 0, as_of |-> 0], "view_cr", NoRow, "none")

CreditsBefore(rows, a, d) ==
    SumAmount(SelectSeq(rows, LAMBDA r : IsCredit(r, a) /\ r.created_at < d))

\* get_balance_at_date, credits: ... created_at__lte=date
CreditsAt(rows, a, d) ==
    SumAmount(SelectSeq(rows, LAMBDA r : IsCredit(r, a) /\ r.created_at <= d))

\* get_balance_at_date, debits: ... created_at__lte=date
DebitsAt(rows, a, d) ==
    SumAmount(SelectSeq(rows, LAMBDA r : IsDebit(r, a) /\ r.created_at <= d))

BalanceAtDate(rows, a, d) == CreditsAt(rows, a, d) - DebitsAt(rows, a, d)

\* AccountService.get_balance_at_date -> Account.get_balance_at_date: the
\* call and its first aggregate query (credits up to the date).
get_balance_at_date(p, a, d) ==
    /\ Begin(p)
    /\ pc' = [pc EXCEPT ![p] = "date_db"]
    /\ req' = [req EXCEPT ![p] = [op |-> "BALANCE_AT", account |-> a,
                                   to |-> NoAccount, amount |-> 0, as_of |-> d]]
    /\ cr' = [cr EXCEPT ![p] = CreditsAt(Visible(p), a, d)]
    /\ last' = NoCall
    /\ UNCHANGED <<ledger, staged, obj, leg, wrote, raced, clock>>

\* Account.get_balance_at_date: the second aggregate query (debits up to
\* the date), the subtraction and the return.
balance_at_date_return(p) ==
    /\ pc[p] = "date_db"
    /\ last' = [CallRecord(req[p], "reply", 0, 0, "none", FALSE)
                  EXCEPT !.balance_of = req[p].account,
                         !.balance = cr[p] - DebitsAt(Visible(p), req[p].account,
                                                      req[p].as_of),
                         !.as_of = req[p].as_of]
    /\ Reset(p)
    /\ UNCHANGED <<ledger, raced, calls, clock>>

\* TransactionView.get: the rows the history of an account returns.
TransactionView(rows, a) ==
    SelectSeq(rows, LAMBDA r :
                 /\ r.account = a \/ r.from_account = a \/ r.to_account = a
                 /\ r.status = "SUCCESS")

\* Requests served one at a time, those of the admin site and the balance
\* queries included.
NextAdmin ==
    \/ \E p \in Procs, a \in Accounts, m \in AmountInputs :
          Alone(p) /\ create_deposit(p, a, m) /\ ApiIdle
    \/ \E p \in Procs, a \in Accounts, m \in AmountInputs :
          Alone(p) /\ create_withdrawal(p, a, m) /\ ApiIdle
    \/ \E p \in Procs, f \in Accounts, t \in Accounts, m \in AmountInputs :
          Alone(p) /\ create_transfer(p, f, t, m) /\ ApiIdle
    \/ \E p \in Procs : Alone(p) /\ balance_credits(p) /\ ApiIdle
    \/ \E p \in Procs : Alone(p) /\ service_check(p) /\ ApiIdle
    \/ \E p \in Procs : Alone(p) /\ service_raise(p) /\ ApiIdle
    \/ \E p \in Procs : Alone(p) /\ validate_check(p) /\ ApiIdle
    \/ \E p \in Procs : Alone(p) /\ validate_raise(p) /\ ApiIdle
    \/ \E p \in Procs : Alone(p) /\ save(p) /\ ApiIdle
    \/ \E p \in Procs : Alone(p) /\ atomic_exit(p) /\ ApiIdle
    \/ \E p \in Procs : Alone(p) /\ reply(p) /\ ApiIdle
    \/ \E p \in Procs, row \in AdminRows : Alone(p) /\ save_model(p, row) /\ ApiIdle
    \/ \E p \in Procs, i \in 1..MaxCalls, m \in AmountInputs :
          Alone(p) /\ change_model(p, i, m) /\ ApiIdle
    \/ \E p \in Procs, i \in 1..MaxCalls : Alone(p) /\ delete_model(p, i) /\ ApiIdle
    \/ \E p \in Procs, a \in Accounts : Alone(p) /\ AccountBalanceView(p, a) /\ ApiIdle
    \/ \E p \in Procs, a \in Accounts, d \in 0..(clock + 1) :
          Alone(p) /\ get_balance_at_date(p, a, d) /\ ApiIdle
    \/ \E p \in Procs : Alone(p) /\ balance_at_date_return(p) /\ ApiIdle

SpecAdmin == Init /\ [][NextAdmin]_vars

(***************************************************************************)
(* The views (views.py): token authentication, login and logout, account  *)
(* creation, and the endpoints in front of the ledger engine.  Every ORM   *)
(* call of a view is one step, in autocommit.                              *)
(***************************************************************************)

\* The Authorization header of a request: absent, not of the form
\* "Token <key>", or "Token k" for a key k (issued or not).
NoHeader == 0
Malformed == 0 - 1
Headers == {NoHeader, Malformed} \cup (1..MaxCalls)

\* What the body of a login request gives to authenticate(): nothing (a
\* field is missing), credentials of no user, or those of a user.
MissingCredentials == 0 - 1
Credentials == {MissingCredentials, NoUser} \cup Users

Rq(v, s, a, t, m) ==
    [view |-> v, session |-> s, account |-> a, to |-> t, amount |-> m]

\* The requests to the views behind authenticate_token.  request.user, the
\* user of the session the request belongs to if any, is read only by
\* AccountCreateView.
\* The "amount" of a request body: a number, or a text that is not one.
NotANumber == 0 - 2
RawAmounts == AmountInputs \cup {NotANumber}

Requests ==
    {Rq(v, NoUser, NoAccount, NoAccount, 0) : v \in {"account_list", "logout"}}
    \cup {Rq("account_create", u, NoAccount, NoAccount, 0) :
             u \in Users \cup {NoUser}}
    \cup {Rq(v, NoUser, a, NoAccount, 0) :
             v \in {"account_details", "balance", "transactions"},
             a \in AccountIds}
    \cup {Rq(v, NoUser, a, NoAccount, m) :
             v \in {"deposit", "withdrawal"}, a \in AccountIds,
             m \in RawAmounts}
    \cup {Rq("transfer", NoUser, a, t, m) :
             a \in AccountIds, t \in AccountIds, m \in RawAmounts}

\* The HTTP status of an error of a view.
StatusOf(err) ==
    CASE err = "TokenRequired" -> 401
      [] err = "InvalidToken" -> 401
      [] err = "InvalidCredentials" -> 401
      [] err = "Forbidden" -> 403
      [] err = "AccountNotFound" -> 404
      [] err = "ServerError" -> 500
      [] OTHER -> 400

Response(h, st, err) ==
    [view |-> h.view, status |-> st, error |-> err, hdr |-> h.hdr,
     user |-> h.user, key |-> h.key, session |-> h.session,
     account |-> h.account, to |-> h.to, amount |-> h.amount,
     created |-> h.created]

\* return JsonResponse(..., status=st): the request h of connection p is
\* answered and the connection is free again.
Respond(p, h, st, err) ==
    /\ resp' = Response(h, st, err)
    /\ http' = [http EXCEPT ![p] = NoHttp]
    /\ pc' = [pc EXCEPT ![p] = "idle"]
    /\ last' = NoCall
    /\ UNCHANGED <<ledger, staged, req, obj, leg, cr, wrote, raced, clock>>

\* The view goes on to its next ORM call.
Continue(p, h, label) ==
    /\ http' = [http EXCEPT ![p] = h]
    /\ pc' = [pc EXCEPT ![p] = label]
    /\ resp' = NoResp
    /\ last' = NoCall
    /\ UNCHANGED <<ledger, staged, req, obj, leg, cr, wrote, raced, clock>>

\* The view calls the ledger engine, or reads a balance for its response.
Dispatch(p, r, label, row, lg) ==
    /\ Proceed(p, r, label, row, lg)
    /\ http' = [http EXCEPT ![p] = NoHttp]
    /\ resp' = NoResp
    /\ UNCHANGED <<accounts, tokens, calls>>

AuthenticatesInactive(k) == k \in DOMAIN tokens

\* AuthToken.objects.get(key=token_key, is_active=True) finds a row.
Authenticates(k) == k \in DOMAIN tokens /\ tokens[k].is_active

\* authenticate_token up to its query: the header check and the lookup of
\* the token.  The instance it gets holds the row as the query read it.
authenticate_token(p, hd, rq) ==
    LET e == [NoHttp EXCEPT !.view = rq.view, !.hdr = hd]
        h == [e EXCEPT !.session = rq.session, !.account = rq.account,
                       !.to = rq.to, !.amount = rq.amount]
    IN /\ Begin(p)
       /\ UNCHANGED <<accounts, tokens>>
       /\ IF hd \in {NoHeader, Malformed}
          THEN Respond(p, e, 401, "TokenRequired")
          ELSE IF ~Authenticates(hd)
               THEN Respond(p, e, 401, "InvalidToken")
               ELSE Continue(p, [h EXCEPT !.user = tokens[hd].user,
                                          !.key = hd, !.tok = tokens[hd]],
                             "auth_save")

\* authenticate_token: token.last_used = timezone.now(); token.save().  The
\* save writes every field of the instance over the row.
token_save(p) ==
    /\ pc[p] = "auth_save"
    /\ tokens' = [tokens EXCEPT ![http[p].key] = http[p].tok]
    /\ Continue(p, [http[p] EXCEPT !.tok = NoToken], "body")
    /\ UNCHANGED <<accounts, calls>>

InBody(p, v) == pc[p] = "body" /\ http[p].view = v

\* The user has an Account row (user.account exists).
HasAccount(u) == u # NoUser /\ \E a \in AccountIds : accounts[a] = u

NoUniqueConstraint(u) == FALSE

\* Account.user is a OneToOneField: the insert of a second account of the
\* user raises IntegrityError.
UniqueViolation(u) == HasAccount(u)

\* The id of the next Account row.
NewId == CHOOSE a \in AccountIds :
            /\ accounts[a] = NoUser
            /\ \A b \in AccountIds : b < a => accounts[b] # NoUser

\* AccountCreateView.post after authentication: hasattr(request.user,
\* "account"), which looks at the user of the session, not at the user of
\* the token.
AccountCreateView_post(p) ==
    /\ InBody(p, "account_create")
    /\ UNCHANGED <<accounts, tokens, calls>>
    /\ IF HasAccount(http[p].session)
       THEN Respond(p, http[p], 400, "AlreadyHasAccount")
       ELSE Continue(p, http[p], "acct_insert")

\* AccountCreateView.post: Account.objects.create(user=user, ...) and the
\* response, or the IntegrityError of the insert.
Account_create(p) ==
    /\ pc[p] = "acct_insert"
    /\ UNCHANGED <<tokens, calls>>
    /\ IF UniqueViolation(http[p].user)
       THEN /\ Respond(p, http[p], 400, "IntegrityError")
            /\ UNCHANGED accounts
       ELSE /\ \E a \in AccountIds : accounts[a] = NoUser
            /\ accounts' = [accounts EXCEPT ![NewId] = http[p].user]
            /\ Respond(p, [http[p] EXCEPT !.account = NewId,
                                          !.created = TRUE], 201, "none")

\* LogoutView.post after authentication:
\* AuthToken.objects.filter(user=user, is_active=True).update(is_active=False)
LogoutView_post(p) ==
    /\ InBody(p, "logout")
    /\ tokens' = [k \in DOMAIN tokens |->
                    IF tokens[k].user = http[p].user
                    THEN [tokens[k] EXCEPT !.is_active = FALSE]
                    ELSE tokens[k]]
    /\ Respond(p, http[p], 200, "none")
    /\ UNCHANGED <<accounts, calls>>

\* AccountListView.get after authentication.
AccountListView_get(p) ==
    /\ InBody(p, "account_list")
    /\ Respond(p, http[p], 200, "none")
    /\ UNCHANGED <<accounts, tokens, calls>>

\* get_object_or_404(Account, id=account_id) finds no row.
NotFound(a) == accounts[a] = NoUser

\* AccountDetailsView.get after authentication.
AccountDetailsView_get(p) ==
    /\ InBody(p, "account_details")
    /\ UNCHANGED <<accounts, tokens, calls>>
    /\ IF NotFound(http[p].account)
       THEN Respond(p, http[p], 404, "AccountNotFound")
       ELSE Respond(p, http[p], 200, "none")

\* TransactionView.get after authentication.
TransactionView_get(p) ==
    /\ InBody(p, "transactions")
    /\ UNCHANGED <<accounts, tokens, calls>>
    /\ IF NotFound(http[p].account)
       THEN Respond(p, http[p], 404, "AccountNotFound")
       ELSE Respond(p, http[p], 200, "none")

\* AccountBalanceView.get after authentication: the lookup of the account,
\* then account.balance, answered by reply.
AccountBalanceView_get(p) ==
    /\ InBody(p, "balance")
    /\ IF NotFound(http[p].account)
       THEN /\ Respond(p, http[p], 404, "AccountNotFound")
            /\ UNCHANGED <<accounts, tokens, calls>>
       ELSE Dispatch(p, [op |-> "BALANCE", account |-> http[p].account,
                         to |-> NoAccount, amount |-> 0, as_of |-> 0],
                     "view_cr", NoRow, "none")

\* "amount = Decimal(str(amount)); if amount <= 0" inside
\* "try ... except (ValueError, TypeError)" (views.py 287-300, 357-370,
\* 440-450).  Decimal() of a text that is not a number raises
\* decimal.InvalidOperation, an ArithmeticError, which that handler does not
\* catch: it reaches the "except Exception" of the view, which answers 500.
AmountError(m) ==
    IF m = NotANumber THEN "ServerError"
    ELSE IF NotPositive(m) THEN "InvalidAmount" ELSE "ok"

DepositViewErrorNoOwnerCheck(u, a, m) ==
    IF AmountError(m) # "ok" THEN AmountError(m)
    ELSE IF NotFound(a) THEN "AccountNotFound" ELSE "ok"

\* The checks of DepositView.post in their order: the amount, the account
\* (Account.DoesNotExist is answered with 404), its owner.
DepositViewError(u, a, m) ==
    IF AmountError(m) # "ok" THEN AmountError(m)
    ELSE IF NotFound(a) THEN "AccountNotFound"
    ELSE IF accounts[a] # u THEN "Forbidden" ELSE "ok"

\* The checks of WithdrawalView.post in their order.  The Http404 of
\* get_object_or_404 is raised inside the try block of the view and caught
\* by its "except Exception", which answers with 500.
WithdrawalViewError(u, a, m) ==
    IF AmountError(m) # "ok" THEN AmountError(m)
    ELSE IF NotFound(a) THEN "ServerError"
    ELSE IF accounts[a] # u THEN "Forbidden" ELSE "ok"

\* The checks of TransferView.post in their order; Http404 as in
\* WithdrawalView.post.
TransferViewError(u, f, t, m) ==
    IF AmountError(m) = "ServerError" THEN "ServerError"
    ELSE IF TransferEntryError(f, t, m) # "ok" THEN TransferEntryError(f, t, m)
    ELSE IF NotFound(f) \/ NotFound(t) THEN "ServerError"
    ELSE IF accounts[f] # u THEN "Forbidden" ELSE "ok"

\* DepositView.post after authentication, up to the call of create_deposit
\* (whose own checks the view has made already).
DepositView_post(p) ==
    LET h == http[p]
        err == DepositViewError(h.user, h.account, h.amount)
    IN /\ InBody(p, "deposit")
       /\ IF err # "ok"
          THEN /\ Respond(p, h, StatusOf(err), err)
               /\ UNCHANGED <<accounts, tokens, calls>>
          ELSE Dispatch(p, [op |-> "DEPOSIT", account |-> h.account,
                            to |-> NoAccount, amount |-> h.amount, as_of |-> 0],
                        AfterCleanFields(DepositRow(h.account, h.amount)),
                        DepositRow(h.account, h.amount), "single")

\* WithdrawalView.post after authentication, up to the first query of
\* create_withdrawal.
WithdrawalView_post(p) ==
    LET h == http[p]
        err == WithdrawalViewError(h.user, h.account, h.amount)
    IN /\ InBody(p, "withdrawal")
       /\ IF err # "ok"
          THEN /\ Respond(p, h, StatusOf(err), err)
               /\ UNCHANGED <<accounts, tokens, calls>>
          ELSE Dispatch(p, [op |-> "WITHDRAWAL", account |-> h.account,
                            to |-> NoAccount, amount |-> h.amount, as_of |-> 0],
                        "svc_cr", NoRow, "single")

\* TransferView.post after authentication, up to the first query of
\* create_transfer.
TransferView_post(p) ==
    LET h == http[p]
        err == TransferViewError(h.user, h.account, h.to, h.amount)
    IN /\ InBody(p, "transfer")
       /\ IF err # "ok"
          THEN /\ Respond(p, h, StatusOf(err), err)
               /\ UNCHANGED <<accounts, tokens, calls>>
          ELSE Dispatch(p, [op |-> "TRANSFER", account |-> h.account,
                            to |-> h.to, amount |-> h.amount, as_of |-> 0],
                        "svc_cr", NoRow, "none")

Min(S) == CHOOSE x \in S : \A y \in S : x <= y

\* AuthToken.objects.filter(user=user, is_active=True).first(): the key of
\* the oldest active token of the user, 0 if there is none.
FirstActive(u) ==
    LET S == {k \in DOMAIN tokens : tokens[k].user = u /\ tokens[k].is_active}
    IN IF S = {} THEN 0 ELSE Min(S)

\* LoginView.post up to the query for an active token of the user.
LoginView_post(p, c) ==
    LET h == [NoHttp EXCEPT !.view = "login"]
    IN /\ Begin(p)
       /\ UNCHANGED <<accounts, tokens>>
       /\ IF c = MissingCredentials
          THEN Respond(p, h, 400, "MissingCredentials")
          ELSE IF c = NoUser
               THEN Respond(p, h, 401, "InvalidCredentials")
               ELSE IF FirstActive(c) # 0
                    THEN Continue(p, [h EXCEPT !.user = c,
                                               !.key = FirstActive(c),
                                               !.tok = tokens[FirstActive(c)]],
                                  "login_save")
                    ELSE Continue(p, [h EXCEPT !.user = c], "login_create")

\* LoginView.post: AuthToken.objects.create(user=user), with a fresh key.
login_create(p) ==
    LET t == [user |-> http[p].user, is_active |-> TRUE]
    IN /\ pc[p] = "login_create"
       /\ tokens' = Append(tokens, t)
       /\ Continue(p, [http[p] EXCEPT !.key = Len(tokens) + 1, !.tok = t,
                                      !.created = TRUE], "login_save")
       /\ UNCHANGED <<accounts, calls>>

\* LoginView.post: token.last_used = timezone.now(); token.save(), and the
\* response with the key of the token.
login_save(p) ==
    /\ pc[p] = "login_save"
    /\ tokens' = [tokens EXCEPT ![http[p].key] = http[p].tok]
    /\ Respond(p, [http[p] EXCEPT !.tok = NoToken], 200, "none")
    /\ UNCHANGED <<accounts, calls>>

\* The views whose requests go on into the ledger engine.
EngineViews == {"deposit", "withdrawal", "transfer", "balance"}

\* Connection p may start a request to view v: a request that goes on into
\* the ledger engine is served alone (the interleavings of the engine are
\* those of Spec); the other requests interleave freely with each other.
MayStart(p, v) ==
    /\ v \in EngineViews => Alone(p)
    /\ \A q \in Procs \ {p} : http[q].view \notin EngineViews /\ req[q] = NoReq

\* A client can put header hd on a request: the key of a token is known
\* to a client only once the login that created the token has returned it.
Presentable(hd) ==
    \A q \in Procs :
        ~(pc[q] = "login_save" /\ http[q].created /\ http[q].key = hd)

\* The requests of the API.
NextApi ==
    \/ \E p \in Procs, hd \in Headers, rq \in Requests :
          MayStart(p, rq.view) /\ Presentable(hd) /\ authenticate_token(p, hd, rq)
    \/ \E p \in Procs : token_save(p)
    \/ \E p \in Procs : AccountCreateView_post(p)
    \/ \E p \in Procs : Account_create(p)
    \/ \E p \in Procs : LogoutView_post(p)
    \/ \E p \in Procs : AccountListView_get(p)
    \/ \E p \in Procs : AccountDetailsView_get(p)
    \/ \E p \in Procs : TransactionView_get(p)
    \/ \E p \in Procs : AccountBalanceView_get(p)
    \/ \E p \in Procs : DepositView_post(p)
    \/ \E p \in Procs : WithdrawalView_post(p)
    \/ \E p \in Procs : TransferView_post(p)
    \/ \E p \in Procs, c \in Credentials :
          MayStart(p, "login") /\ LoginView_post(p, c)
    \/ \E p \in Procs : login_create(p)
    \/ \E p \in Procs : login_save(p)
    \/ \E p \in Procs : balance_credits(p) /\ ApiIdle
    \/ \E p \in Procs : service_check(p) /\ ApiIdle
    \/ \E p \in Procs : service_raise(p) /\ ApiIdle
    \/ \E p \in Procs : validate_check(p) /\ ApiIdle
    \/ \E p \in Procs : validate_raise(p) /\ ApiIdle
    \/ \E p \in Procs : save(p) /\ ApiIdle
    \/ \E p \in Procs : atomic_exit(p) /\ ApiIdle
    \/ \E p \in Procs : reply(p) /\ ApiIdle

SpecApi == Init /\ [][NextApi]_vars

(***************************************************************************)
(* Properties.  `last` describes the call that ended in the step leading   *)
(* to the current state, so the ledger of that state is the committed      *)
(* ledger at the moment the call ended, and the rows the call committed    *)
(* in that step are its final last.wrote rows.                             *)
(***************************************************************************)

\* The committed rows without those the call that just ended committed.
Before == SubSeq(ledger, 1, Len(ledger) - last.wrote)

DebitCall(op) == op \in {"WITHDRAWAL", "TRANSFER"}

Max(S) == CHOOSE x \in S : \A y \in S : y <= x

\* C1: in every reachable state, under any interleaving of deposit, withdraw
\* and transfer calls, the balance of every account over the committed rows
\* is not negative.
C1_BalanceNeverNegative == \A a \in Accounts : Balance(ledger, a) >= 0

\* C2: two debits on the same account that run concurrently, one of them a
\* withdrawal, each fitting the balance alone but not together, never both
\* succeed.  Stated for the debit that commits second: the call has just
\* returned successfully, another connection committed a debit on the same
\* account while it ran, and nothing was credited to the account since.
C2_ConcurrentDebitsNeverBothSucceed ==
    (last.outcome = "ok" /\ DebitCall(last.op) /\ last.raced) =>
       LET a == last.account
           D == {i \in DOMAIN Before : IsDebit(Before[i], a)}
       IN D # {} =>
            LET i == Max(D)
                B == Balance(SubSeq(Before, 1, i - 1), a)
                other == Before[i]
            IN ( /\ last.op = "WITHDRAWAL" \/ other.transaction_type = "WITHDRAWAL"
                 /\ \A j \in DOMAIN Before : j > i => ~IsCredit(Before[j], a)
                 /\ other.amount <= B
                 /\ last.amount <= B )
               => other.amount + last.amount <= B

\* C3: a transfer of a positive amount between two different accounts whose
\* source holds at least the amount (the amount exactly included) commits:
\* the source goes down by the amount, the destination up by it, and two
\* rows of that amount are added.  Checked with calls run one at a time.
C3_FundedTransferCommits ==
    ( /\ last.op = "TRANSFER"
      /\ last.outcome # "reply"
      /\ last.amount > 0
      /\ last.account # last.to
      /\ Balance(Before, last.account) >= last.amount )
    => /\ last.outcome = "ok"
       /\ last.wrote = 2
       /\ Balance(ledger, last.account) = Balance(Before, last.account) - last.amount
       /\ Balance(ledger, last.to) = Balance(Before, last.to) + last.amount
       /\ ledger[Len(ledger) - 1].amount = last.amount
       /\ ledger[Len(ledger)].amount = last.amount

\* C4: a committed transfer leaves the sum of the source and destination
\* balances as it was just before the transfer committed.
C4_TransferConservesMoney ==
    (last.op = "TRANSFER" /\ last.outcome = "ok") =>
       /\ last.wrote = 2
       /\ Balance(ledger, last.account) + Balance(ledger, last.to)
            = Balance(Before, last.account) + Balance(Before, last.to)

\* A transfer has just committed.
C4_Witness == last.op = "TRANSFER" /\ last.outcome = "ok" /\ last.wrote = 2

\* The transfer legs among rows, from f to t of amount m, on the debit or on
\* the credit side.
Legs(rows, f, t, m, side) ==
    {i \in DOMAIN rows :
        /\ rows[i].transaction_type = "TRANSFER"
        /\ rows[i].from_account = f
        /\ rows[i].to_account = t
        /\ rows[i].amount = m
        /\ rows[i].account = (IF side = "debit" THEN f ELSE t)}

LegsPaired(rows) ==
    \A f \in Accounts, t \in Accounts, m \in 1..MaxAmount :
        Cardinality(Legs(rows, f, t, m, "debit"))
          = Cardinality(Legs(rows, f, t, m, "credit"))

\* C5: the two legs of a transfer become visible together: what a query of a
\* connection that is not itself inside a transfer sees never contains a
\* debit leg without its credit leg or a credit leg without its debit leg,
\* whatever step of create_transfer another connection has reached.
C5_LegsVisibleTogether ==
    \A q \in Procs : staged[q] = <<>> => LegsPaired(Visible(q))

\* A connection has staged the debit leg only while another one is about to
\* run a balance query.
C5_Witness ==
    \E p \in Procs, q \in Procs :
        /\ p # q
        /\ Len(staged[p]) = 1
        /\ pc[q] \in {"svc_cr", "svc_db", "clean_cr", "clean_db"}

\* The calls the committed rows stand for: every row but the credit legs.
CommittedCalls ==
    SelectSeq(ledger, LAMBDA r :
                 ~(r.transaction_type = "TRANSFER" /\ r.account = r.to_account))

\* Running the calls cs in the order f one at a time, from the balances b,
\* from the k-th on: every debit finds the funds it needs.
RECURSIVE SerialRun(_, _, _, _)
SerialRun(cs, f, k, b) ==
    IF k > Len(cs) THEN TRUE
    ELSE LET c == cs[f[k]]
         IN IF c.transaction_type = "DEPOSIT"
            THEN SerialRun(cs, f, k + 1,
                           [b EXCEPT ![c.account] = @ + c.amount])
            ELSE IF c.transaction_type = "WITHDRAWAL"
            THEN /\ b[c.account] >= c.amount
                 /\ SerialRun(cs, f, k + 1,
                              [b EXCEPT ![c.account] = @ - c.amount])
            ELSE /\ b[c.from_account] >= c.amount
                 /\ SerialRun(cs, f, k + 1,
                              [b EXCEPT ![c.from_account] = @ - c.amount,
                                        ![c.to_account] = @ + c.amount])

\* C6: the committed rows are those of some one-at-a-time execution of the
\* calls that committed them, and the balance a sufficiency check relied on
\* is not stale when the call writes its debit row: the funds are still
\* there.
C6_SerialisableDebits ==
    /\ \E f \in Permutations(1..Len(CommittedCalls)) :
          SerialRun(CommittedCalls, f, 1, [a \in Accounts |-> 0])
    /\ \A p \in Procs :
          (pc[p] = "insert" /\ IsDebit(obj[p], CheckedAccount(obj[p])))
             => Balance(Visible(p), CheckedAccount(obj[p])) >= obj[p].amount

\* C7: a transfer that fails, also while saving the credit leg after the
\* debit leg was staged, commits neither leg and leaves nothing staged.
C7_FailedTransferCommitsNothing ==
    (last.op = "TRANSFER" /\ last.outcome \notin {"ok", "reply"}) =>
       /\ last.wrote = 0
       /\ \A p \in Procs : ~InFlight(p) => staged[p] = <<>>
       /\ LegsPaired(ledger)

\* A transfer has been rejected by the validation of its credit leg, after
\* its debit leg was saved.
C7_Witness ==
    /\ last.op = "TRANSFER"
    /\ last.outcome = "InsufficientBalance"
    /\ last.leg = "credit"

\* C8: a withdrawal or transfer whose amount exceeds the balance of the
\* paying account when the service (and again Transaction.clean) compares
\* the two is rejected with InsufficientBalance, and a call rejected with
\* InsufficientBalance has written no row and ends without changing the
\* committed rows, so without changing any balance.
C8_OverdraftRejected ==
    [][ /\ \A p \in Procs :
              ( /\ pc[p] = "svc_db"
                /\ pc'[p] # "svc_db"
                /\ Balance(Visible(p), PayingAccount(p)) < req[p].amount )
              => pc'[p] = "svc_msg_cr"
        /\ \A p \in Procs :
              ( /\ pc[p] = "clean_db"
                /\ pc'[p] # "clean_db"
                /\ Balance(Visible(p), CheckedAccount(obj[p])) < obj[p].amount )
              => pc'[p] = "clean_msg_cr"
        /\ \A p \in Procs :
              ( /\ pc[p] \in {"svc_msg_cr", "svc_msg_db", "clean_msg_cr", "clean_msg_db"}
                /\ pc'[p] # pc[p] )
              => \/ /\ pc[p] \in {"svc_msg_cr", "clean_msg_cr"}
                    /\ pc'[p] = AfterCredits(pc[p])
                 \/ /\ pc[p] \in {"svc_msg_db", "clean_msg_db"}
                    /\ last'.outcome = "InsufficientBalance"
                    /\ last'.op = req[p].op
                    /\ last'.account = req[p].account
        /\ last'.outcome = "InsufficientBalance"
              => /\ last'.wrote = 0
                 /\ ledger' = ledger
                 /\ \A a \in Accounts : Balance(ledger', a) = Balance(ledger, a) ]_vars

\* A withdrawal of more than the account holds has just been rejected.
C8_Witness ==
    /\ last.outcome = "InsufficientBalance"
    /\ last.op = "WITHDRAWAL"
    /\ last.leg = "single"
    /\ Balance(ledger, last.account) < last.amount

\* C9: every InsufficientBalance rejection reports as available the
\* committed balance of the paying account at the time of the rejection and
\* as required the requested amount, with available < required.
C9_RejectionReportsBalance ==
    last.outcome = "InsufficientBalance" =>
       /\ last.avail = Balance(ledger, last.account)
       /\ last.avail < last.amount

\* C10 as claimed: a transfer whose source and destination are the same
\* account is rejected with SameAccount before any row is written, whatever
\* the amount and the balance.
C10_SelfTransferAlwaysSameAccount ==
    (last.op = "TRANSFER" /\ last.account = last.to) =>
       /\ last.outcome = "SameAccount"
       /\ last.wrote = 0
       /\ last.leg = "none"

\* C10 as amended: a transfer whose source and destination are the same
\* account is rejected before any row is created, whatever the balance:
\* with SameAccount when the amount is positive, with InvalidAmount when it
\* is zero or negative.
C10_SelfTransferRejected ==
    (last.op = "TRANSFER" /\ last.account = last.to) =>
       /\ last.outcome = (IF last.amount > 0 THEN "SameAccount" ELSE "InvalidAmount")
       /\ last.wrote = 0
       /\ last.leg = "none"

\* A self-transfer of an amount the account holds has been rejected.
C10_Witness ==
    /\ last.op = "TRANSFER"
    /\ last.account = last.to
    /\ last.outcome = "SameAccount"
    /\ Balance(ledger, last.account) >= last.amount

ServiceOps == {"DEPOSIT", "WITHDRAWAL", "TRANSFER"}

\* A call of the service has just ended (not a balance of a response).
CallEnded == last.op \in ServiceOps /\ last.outcome # "reply"

\* C11: deposit, withdraw and transfer reject an amount that is zero or
\* negative with InvalidAmount; the step that rejects it writes no row,
\* leaves every balance as it was and leaves no query or row pending.
C11_NonPositiveAmountRejected ==
    [][ (last'.op \in ServiceOps /\ last'.amount <= 0) =>
          /\ last'.outcome = "InvalidAmount"
          /\ last'.wrote = 0
          /\ last'.leg = "none"
          /\ ledger' = ledger
          /\ staged' = staged
          /\ pc' = pc
          /\ \A a \in Accounts : Balance(ledger', a) = Balance(ledger, a) ]_vars

\* An account holds money and a call on it with a negative amount has just
\* been rejected.
C11_Witness ==
    /\ last.outcome = "InvalidAmount"
    /\ last.amount < 0
    /\ Balance(ledger, last.account) > 0

\* C12: the rules are evaluated in the order amount, accounts, sufficiency
\* and the first failure wins: a call with a non-positive amount ends with
\* InvalidAmount also when source = destination; a transfer of a positive
\* amount with source = destination ends with SameAccount also when the
\* balance is short; InsufficientBalance is the outcome only of calls that
\* pass the first two rules, and the first two rules reject before any
\* balance is read or row created.
C12_FirstFailureWins ==
    CallEnded =>
       /\ last.amount <= 0 => last.outcome = "InvalidAmount"
       /\ (last.amount > 0 /\ last.op = "TRANSFER" /\ last.account = last.to)
             => last.outcome = "SameAccount"
       /\ last.outcome = "InsufficientBalance"
             => /\ last.amount > 0
                /\ last.op = "TRANSFER" => last.account # last.to
       /\ last.outcome \in {"InvalidAmount", "SameAccount"}
             => last.leg = "none" /\ last.wrote = 0

\* A transfer of more than the account holds to the account itself has just
\* been rejected as SameAccount.
C12_Witness ==
    /\ last.op = "TRANSFER"
    /\ last.account = last.to
    /\ last.amount > Balance(ledger, last.account)
    /\ last.outcome = "SameAccount"

\* C13: in every reachable state every committed row has amount > 0, and
\* every committed TRANSFER row has from_account # to_account.
C13_RowsWellFormed ==
    \A i \in DOMAIN ledger :
        /\ ledger[i].amount > 0
        /\ ledger[i].transaction_type = "TRANSFER"
              => ledger[i].from_account # ledger[i].to_account

\* C14: saving a DEPOSIT or WITHDRAWAL row that carries a from_account or
\* a to_account is rejected as MalformedIntent, saving a TRANSFER row that
\* lacks one of them is rejected as MissingAccount, and neither stores
\* anything; every committed DEPOSIT or WITHDRAWAL row has both fields
\* empty and every committed TRANSFER row has both set.
C14_CounterpartFieldsChecked ==
    [][ /\ last'.op = "ADMIN" =>
              /\ ( /\ last'.row.transaction_type \in {"DEPOSIT", "WITHDRAWAL"}
                   /\ \/ last'.row.from_account # NoAccount
                      \/ last'.row.to_account # NoAccount )
                    => last'.outcome = "MalformedIntent"
              /\ ( /\ last'.row.transaction_type = "TRANSFER"
                   /\ \/ last'.row.from_account = NoAccount
                      \/ last'.row.to_account = NoAccount )
                    => last'.outcome = "MissingAccount"
              /\ last'.outcome \in {"MalformedIntent", "MissingAccount"}
                    => ledger' = ledger /\ staged' = staged
        /\ \A i \in DOMAIN ledger' :
              IF ledger'[i].transaction_type = "TRANSFER"
              THEN /\ ledger'[i].from_account # NoAccount
                   /\ ledger'[i].to_account # NoAccount
              ELSE /\ ledger'[i].from_account = NoAccount
                   /\ ledger'[i].to_account = NoAccount ]_vars

\* Rows are committed and the save of a deposit row that names a
\* from_account has just been rejected.
C14_Witness ==
    /\ last.op = "ADMIN"
    /\ last.row.transaction_type = "DEPOSIT"
    /\ last.row.from_account # NoAccount
    /\ last.outcome = "MalformedIntent"
    /\ Len(ledger) >= 2

\* The place of a committed row in the ledger (created_at tells rows apart).
RowIndex(row) == CHOOSE i \in DOMAIN ledger : ledger[i] = row

\* The committed rows up to and including the row: the ledger as the commit
\* of the row left it.
UpTo(row) == SubSeq(ledger, 1, RowIndex(row))

\* C15: a deposit of a positive amount succeeds whatever the balance: one
\* DEPOSIT row with status SUCCESS is added, the balance of the account
\* goes up by the amount, the other balances stay, and the new_balance of
\* the response is the balance before the deposit plus the amount.
C15_DepositAddsAmount ==
    /\ (CallEnded /\ last.op = "DEPOSIT" /\ last.amount > 0) =>
          /\ last.outcome = "ok"
          /\ last.wrote = 1
          /\ ledger[Len(ledger)] =
                [DepositRow(last.account, last.amount)
                   EXCEPT !.created_at = ledger[Len(ledger)].created_at]
          /\ ledger[Len(ledger)].status = "SUCCESS"
          /\ \A a \in Accounts :
                Balance(ledger, a) =
                   Balance(Before, a) + (IF a = last.account THEN last.amount ELSE 0)
    /\ (last.op = "DEPOSIT" /\ last.outcome = "reply") =>
          /\ last.balance_of = last.account
          /\ last.balance = Balance(UpTo(last.row), last.account)

\* C16: a withdrawal of a positive amount that the balance covers when the
\* service and Transaction.clean read it (the amount equal to the balance
\* included) succeeds: one WITHDRAWAL row with status SUCCESS is added, the
\* balance of the account goes down by the amount, the other balances
\* stay, and the new_balance of the response is the balance before the
\* withdrawal minus the amount.
C16_WithdrawalTakesAmount ==
    [][ /\ \A p \in Procs :
              ( /\ req[p].op = "WITHDRAWAL"
                /\ pc[p] = "svc_db" /\ pc'[p] # "svc_db"
                /\ BalanceRead(p) >= req[p].amount )
              => pc'[p] = "clean_cr"
        /\ \A p \in Procs :
              ( /\ req[p].op = "WITHDRAWAL"
                /\ pc[p] = "clean_db" /\ pc'[p] # "clean_db"
                /\ BalanceRead(p) >= req[p].amount )
              => pc'[p] = "insert"
        /\ \A p \in Procs :
              ( /\ req[p].op = "WITHDRAWAL"
                /\ pc[p] = "insert" /\ pc'[p] # "insert" )
              => /\ last'.outcome = "ok"
                 /\ last'.op = "WITHDRAWAL"
                 /\ last'.wrote = 1
                 /\ Len(ledger') = Len(ledger) + 1
                 /\ ledger'[Len(ledger')] =
                       [WithdrawalRow(req[p].account, req[p].amount)
                          EXCEPT !.created_at = clock']
                 /\ ledger'[Len(ledger')].status = "SUCCESS"
                 /\ \A a \in Accounts :
                       Balance(ledger', a) =
                          Balance(ledger, a)
                            - (IF a = req[p].account THEN req[p].amount ELSE 0)
        /\ (last'.op = "WITHDRAWAL" /\ last'.outcome = "reply") =>
              /\ last'.balance_of = last'.account
              /\ last'.balance =
                    Balance(SubSeq(ledger', 1,
                                   CHOOSE i \in DOMAIN ledger' :
                                      ledger'[i] = last'.row),
                            last'.account) ]_vars

\* C17: in every committed state the TRANSFER rows come in matched pairs:
\* every TRANSFER row is the debit leg (account = from_account) or the
\* credit leg (account = to_account) of its transfer, and for every source,
\* destination and amount there are as many committed debit legs as credit
\* legs, so no leg is without its counterpart.
C17_TransferRowsPaired ==
    /\ \A i \in DOMAIN ledger :
          ledger[i].transaction_type = "TRANSFER"
             => ledger[i].account \in {ledger[i].from_account, ledger[i].to_account}
    /\ \A f \in Accounts, t \in Accounts, m \in AmountInputs :
          Cardinality(Legs(ledger, f, t, m, "debit"))
            = Cardinality(Legs(ledger, f, t, m, "credit"))

\* C18: every committed row has status SUCCESS, those written by deposit,
\* withdraw and transfer included, and the history of an account returns
\* only SUCCESS rows.
C18_OnlySuccessCommitted ==
    /\ \A i \in DOMAIN ledger : ledger[i].status = "SUCCESS"
    /\ \A a \in Accounts :
          \A i \in DOMAIN TransactionView(ledger, a) :
             TransactionView(ledger, a)[i].status = "SUCCESS"

\* The committed rows with status SUCCESS.
SuccessRows == SelectSeq(ledger, LAMBDA r : r.status = "SUCCESS")

\* C19: the balance of an account, and its balance at any date, count only
\* the rows with status SUCCESS: a stored PENDING or FAILED row contributes
\* nothing.
C19_BalanceCountsSuccessOnly ==
    \A a \in Accounts :
        /\ Balance(ledger, a) = Balance(SuccessRows, a)
        /\ \A d \in 0..(clock + 1) :
              BalanceAtDate(ledger, a, d) = BalanceAtDate(SuccessRows, a, d)

\* What one row adds to the funds of account a: a deposit or a transfer leg
\* into it its amount, a withdrawal or a transfer leg out of it minus its
\* amount, a row of another account nothing.
Effect(r, a) ==
    IF r.account # a THEN 0
    ELSE IF r.transaction_type = "DEPOSIT" THEN r.amount
    ELSE IF r.transaction_type = "WITHDRAWAL" THEN 0 - r.amount
    ELSE (IF r.to_account = a THEN r.amount ELSE 0)
           - (IF r.from_account = a THEN r.amount ELSE 0)

RECURSIVE Net(_, _)
Net(rows, a) ==
    IF rows = <<>> THEN 0 ELSE Effect(Head(rows), a) + Net(Tail(rows), a)

\* The rows created up to the date d.
CreatedUpTo(rows, d) == SelectSeq(rows, LAMBDA r : r.created_at <= d)

\* C20: the balance of an account is the sum of its deposits and incoming
\* transfer legs minus the sum of its withdrawals and outgoing transfer
\* legs, and zero when it has no row; the balance at a date is the same sum
\* over the rows created up to the date, so zero before the first row and
\* equal to the balance from the latest row on; the balance queries return
\* these values.
C20_BalanceIsSignedSum ==
    /\ \A a \in Accounts :
          /\ Balance(ledger, a) = Net(ledger, a)
          /\ (\A i \in DOMAIN ledger : ledger[i].account # a)
                => Balance(ledger, a) = 0
          /\ \A d \in 0..(clock + 1) :
                /\ BalanceAtDate(ledger, a, d) = Net(CreatedUpTo(ledger, d), a)
                /\ (\A i \in DOMAIN ledger :
                       ledger[i].account = a => ledger[i].created_at > d)
                      => BalanceAtDate(ledger, a, d) = 0
                /\ (\A i \in DOMAIN ledger :
                       ledger[i].account = a => ledger[i].created_at <= d)
                      => BalanceAtDate(ledger, a, d) = Balance(ledger, a)
    /\ (last.op = "BALANCE" /\ last.outcome = "reply")
          => last.balance = Net(ledger, last.account)
    /\ (last.op = "BALANCE_AT" /\ last.outcome = "reply")
          => last.balance = Net(CreatedUpTo(ledger, last.as_of), last.account)

\* The balance of an account at a date between two of its rows has just
\* been returned: it is neither zero nor the balance of the account.
C20_Witness ==
    /\ last.op = "BALANCE_AT"
    /\ last.outcome = "reply"
    /\ last.balance # 0
    /\ last.balance # Balance(ledger, last.account)

\* A step of a balance query of some connection.
BalanceQueryStep ==
    \E p \in Procs :
        /\ req[p].op = "BALANCE" \/ req'[p].op = "BALANCE"
        /\ pc'[p] # pc[p]

\* C21: the balance query is a pure projection: no step of it changes a
\* committed or staged row, and the value it returns is the one a scan of
\* the whole committed history of the account gives, so two queries with
\* no commit between them, answered over the same rows, return the same
\* value.
C21_BalanceQueryIsProjection ==
    [][ /\ BalanceQueryStep =>
              ledger' = ledger /\ staged' = staged /\ clock' = clock
        /\ (last'.op = "BALANCE" /\ last'.outcome = "reply") =>
              /\ last'.balance_of = last'.account
              /\ last'.balance = Net(ledger', last'.account) ]_vars

\* The balance of an account with several rows, credits and debits among
\* them, has just been returned.
C21_Witness ==
    /\ last.op = "BALANCE"
    /\ last.outcome = "reply"
    /\ last.balance > 0
    /\ \E i \in DOMAIN ledger : IsDebit(ledger[i], last.account)

\* What the claim of immutability is about: the rows without the time of
\* their insert.
Content(rows) == [i \in DOMAIN rows |-> [rows[i] EXCEPT !.created_at = 0]]

\* C22: the ledger is append-only: a committed row stays in the ledger with
\* the same account, counterpart accounts, amount, type and status in every
\* later state; no step updates or deletes a committed row.
C22_LedgerAppendOnly ==
    [][ /\ Len(ledger') >= Len(ledger)
        /\ SubSeq(Content(ledger'), 1, Len(ledger)) = Content(ledger) ]_vars

\* C23: rows enter the ledger only through the deposit, withdraw and
\* transfer operations of TransactionService, after their validation: every
\* step that changes the committed rows is the insert or the commit of such
\* a call, and every committed row is a SUCCESS deposit, a SUCCESS
\* withdrawal or one leg of a complete transfer pair.
C23_OnlyServiceWrites ==
    [][ /\ ledger' # ledger =>
              \E p \in Procs :
                  /\ req[p].op \in ServiceOps
                  /\ pc[p] \in {"insert", "commit"}
                  /\ pc'[p] # pc[p]
        /\ \A i \in DOMAIN ledger' :
              /\ ledger'[i].status = "SUCCESS"
              /\ ledger'[i].transaction_type = "TRANSFER" =>
                    \E j \in DOMAIN ledger' :
                        /\ j # i
                        /\ ledger'[j].transaction_type = "TRANSFER"
                        /\ ledger'[j].from_account = ledger'[i].from_account
                        /\ ledger'[j].to_account = ledger'[i].to_account
                        /\ ledger'[j].amount = ledger'[i].amount
                        /\ ledger'[j].account # ledger'[i].account ]_vars

\* The accounts a user owns.
Owned(u) == {a \in AccountIds : accounts[a] = u}

\* C24: each user owns at most one account in every state, also when
\* account-creation requests of the same user interleave; the request of a
\* user who already owns an account is rejected with 400 and creates no
\* account.
C24_OneAccountPerUser ==
    [][ /\ \A a \in AccountIds, b \in AccountIds :
              (accounts'[a] # NoUser /\ accounts'[a] = accounts'[b]) => a = b
        /\ ( /\ resp'.view = "account_create"
             /\ resp'.status # 401
             /\ HasAccount(resp'.user) )
           => /\ resp'.status = 400
              /\ ~resp'.created
              /\ accounts' = accounts ]_vars

\* The insert of a second account of a user has just been refused: the
\* user owns the account an earlier or concurrent request created.
C24_Witness ==
    /\ resp.view = "account_create"
    /\ resp.status = 400
    /\ resp.error = "IntegrityError"
    /\ resp.user = 3
    /\ accounts[3] = 3

\* C25: a user authenticated by an active token who owns no account can
\* always create one: the request returns 201, afterwards exactly one
\* account is owned by that user and its balance is 0, whatever other
\* identity the request carries and whatever accounts other users own.
C25_CreationDependsOnTokenUserOnly ==
    [][ ( /\ resp'.view = "account_create"
          /\ resp'.status # 401
          /\ ~HasAccount(resp'.user) )
        => /\ resp'.status = 201
           /\ \E a \in AccountIds :
                 /\ {b \in AccountIds : accounts'[b] = resp'.user} = {a}
                 /\ Balance(ledger', a) = 0 ]_vars

\* The views that move money.
MoneyViews == {"deposit", "withdrawal", "transfer"}

\* Connection p takes the step of view v that follows authentication.
BodyStep(p, v) == InBody(p, v) /\ pc'[p] # "body"

\* The request of connection p names, as the account to pay into (deposit)
\* or out of, an account of another user.
OfAnotherUser(p) ==
    /\ ~NotFound(http[p].account)
    /\ accounts[http[p].account] # http[p].user

\* The request of connection p passes the checks the view makes before it
\* looks at the owner: a positive amount and, for a transfer, a destination
\* that exists and is not the source.
PassesEarlierChecks(p) ==
    /\ http[p].amount > 0
    /\ http[p].view = "transfer" =>
          /\ http[p].to # http[p].account
          /\ ~NotFound(http[p].to)

\* C26 as stated: a deposit into, a withdrawal from or a transfer out of an
\* account of another user is rejected with 403, whatever else the request
\* carries, without a row written or a balance changed.
C26_ForeignAccountAlways403 ==
    [][ \A p \in Procs, v \in MoneyViews :
           (BodyStep(p, v) /\ OfAnotherUser(p))
           => /\ resp'.status = 403
              /\ ledger' = ledger /\ staged' = staged ]_vars

\* C26: a deposit into, a withdrawal from or a transfer out of an account
\* of another user is always rejected, and rejected with 403 when the
\* request passes the checks made before the ownership check (positive
\* amount; for a transfer, an existing destination other than the source);
\* no row is written, staged or left pending, so every balance stays.  A
\* transfer needs the ownership of the source only: a valid transfer out of
\* an account of the caller to an account of any user goes on to the
\* service.
C26_ForeignAccountRejected ==
    [][ /\ \A p \in Procs, v \in MoneyViews :
              (BodyStep(p, v) /\ OfAnotherUser(p))
              => /\ resp'.status \in {400, 403, 500}
                 /\ PassesEarlierChecks(p) => resp'.status = 403
                 /\ pc'[p] = "idle" /\ req'[p] = NoReq
                 /\ ledger' = ledger /\ staged' = staged
                 /\ \A a \in AccountIds : Balance(ledger', a) = Balance(ledger, a)
        /\ \A p \in Procs :
              ( /\ BodyStep(p, "transfer")
                /\ accounts[http[p].account] = http[p].user
                /\ PassesEarlierChecks(p) )
              => /\ resp' = NoResp
                 /\ req'[p].op = "TRANSFER" ]_vars

\* A transfer out of an account of another user into the account of the
\* caller, which holds money, has just been rejected with 403.
C26_Witness ==
    /\ resp.view = "transfer"
    /\ resp.status = 403
    /\ accounts[resp.to] = resp.user
    /\ Balance(ledger, resp.to) > 0

\* The views behind authenticate_token: all but login.
AuthViews == {"account_create", "account_list", "account_details", "balance",
              "transactions", "deposit", "withdrawal", "transfer", "logout"}

\* A request starts in this step.
RequestStarts == calls' # calls

\* k is the key of a token that is active.
ActiveKey(k) == \E i \in DOMAIN tokens : i = k /\ tokens[i].is_active

\* C27: every endpoint other than login rejects a request without a token,
\* with a malformed Authorization header, with an unknown token or with an
\* inactive token with 401, and such a request changes no account, no
\* transaction and no token: a request gets past authentication only with
\* the key of an active token, as the user of that token.
C27_Unauthenticated401 ==
    [][ /\ (RequestStarts /\ resp'.view \in AuthViews) =>
              /\ resp'.status = 401
              /\ ~ActiveKey(resp'.hdr)
        /\ (resp'.view \in AuthViews /\ resp'.status = 401) =>
              /\ accounts' = accounts /\ tokens' = tokens
              /\ ledger' = ledger /\ staged' = staged
              /\ \A p \in Procs : pc'[p] = pc[p] /\ req'[p] = req[p]
        /\ \A p \in Procs :
              (RequestStarts /\ http'[p] # http[p] /\ http'[p].view \in AuthViews)
              => /\ ActiveKey(http'[p].hdr)
                 /\ http'[p].user = tokens[http'[p].hdr].user ]_vars

\* A request with a token that logout has deactivated has just been
\* rejected with 401.
C27_Witness ==
    /\ resp.status = 401
    /\ resp.view \in AuthViews
    /\ resp.hdr \in DOMAIN tokens
    /\ ~tokens[resp.hdr].is_active

\* C28: after a successful logout every token of the user is inactive; a
\* token once inactive is inactive in every later state, so it never
\* authenticates a request again; a login after it is answered with a
\* different, fresh token.
C28_LogoutIsFinal ==
    [][ /\ (resp'.view = "logout" /\ resp'.status = 200) =>
              \A k \in DOMAIN tokens' :
                 tokens'[k].user = resp'.user => ~tokens'[k].is_active
        /\ \A k \in DOMAIN tokens : ~tokens[k].is_active => ~tokens'[k].is_active
        /\ \A p \in Procs :
              (pc[p] = "login_create" /\ pc'[p] # pc[p])
              => /\ http'[p].key \notin DOMAIN tokens
                 /\ tokens'[http'[p].key].is_active
        /\ \A p \in Procs :
              (pc[p] = "login_save" /\ pc'[p] # pc[p])
              => tokens[http[p].key].is_active
        /\ \A p \in Procs, k \in DOMAIN tokens :
              (RequestStarts /\ http'[p] # http[p] /\ ~tokens[k].is_active)
              => http'[p].key # k ]_vars

\* A step of a login that found an active token of its user.
LoginWithToken(p) ==
    /\ http[p].view = "login"
    /\ ~http[p].created
    /\ pc[p] = "login_save"
    /\ pc'[p] # pc[p]

\* C29: a successful login of a user who holds an active token returns
\* that token and creates none: the token rows, and with them the number
\* of active tokens of the user, are as they were; a login with wrong
\* credentials returns 401 and creates or changes no token.
C29_LoginReusesToken ==
    [][ /\ \A p \in Procs :
              LoginWithToken(p) =>
                 /\ resp'.status = 200
                 /\ resp'.key = http[p].key
                 /\ tokens' = tokens
        /\ \A p \in Procs, u \in Users :
              ( /\ RequestStarts /\ http'[p] # http[p]
                /\ http'[p].view = "login" /\ http'[p].user = u )
              => (http'[p].key # 0 <=> FirstActive(u) # 0)
        /\ \A p \in Procs :
              ( /\ RequestStarts /\ http'[p] # http[p]
                /\ http'[p].view = "login" /\ http'[p].key # 0 )
              => /\ http'[p].key = FirstActive(http'[p].user)
                 /\ pc'[p] = "login_save"
        /\ (resp'.view = "login" /\ resp'.error = "InvalidCredentials") =>
              /\ resp'.status = 401
              /\ tokens' = tokens ]_vars

\* The request of connection p names an account id that is not in use.
NamesMissingAccount(p) ==
    \/ NotFound(http[p].account)
    \/ http[p].view = "transfer" /\ NotFound(http[p].to)

\* C30: a deposit, withdrawal, transfer, balance query or history query
\* that names an account id that does not exist (for a transfer: as the
\* source or as the destination) fails with 404 AccountNotFound and writes
\* no row.  Stated for requests that carry a positive amount and, for a
\* transfer, two different ids, so that no other check answers first.
C30_MissingAccount404 ==
    [][ \A p \in Procs, v \in MoneyViews \cup {"balance", "transactions"} :
           ( /\ BodyStep(p, v)
             /\ NamesMissingAccount(p)
             /\ v \in MoneyViews => http[p].amount > 0
             /\ v = "transfer" => http[p].to # http[p].account )
           => /\ resp'.status = 404
              /\ resp'.error = "AccountNotFound"
              /\ req'[p] = NoReq
              /\ ledger' = ledger /\ staged' = staged ]_vars

\* Connection p carries a request whose amount is not a number.
NotParseable(p) == http[p].amount = NotANumber

\* C31: an amount of a deposit, withdrawal or transfer request that does not
\* parse as a decimal number (a non-numeric text) is rejected with 400
\* InvalidAmount, not with a server error, and no row is written.
C31_BadAmountIs400 ==
    [][ \A p \in Procs, v \in MoneyViews :
           (BodyStep(p, v) /\ NotParseable(p))
           => /\ resp'.status = 400
              /\ resp'.error = "InvalidAmount"
              /\ req'[p] = NoReq
              /\ ledger' = ledger /\ staged' = staged ]_vars

\* The keys of the active tokens of user u.
ActiveTokens(toks, u) ==
    {k \in DOMAIN toks : toks[k].user = u /\ toks[k].is_active}

\* No user has more than one active token.
OneActiveToken(toks) ==
    \A u \in Users : Cardinality(ActiveTokens(toks, u)) <= 1

\* Connection p takes a step of a login or of a logout request.
LoginOrLogoutStep(p) ==
    /\ pc'[p] # pc[p]
    /\ \/ http[p].view \in {"login", "logout"}
       \/ pc[p] = "idle" /\ http'[p].view \in {"login", "logout"}
       \/ pc[p] = "idle" /\ resp'.view \in {"login", "logout"}

\* C37: from a state where no user has more than one active token, a step
\* of a login or logout request, in any interleaving (two concurrent logins
\* of one user included), leads to a state where no user has more than one
\* active token.
C37_OneActiveTokenPerUser ==
    [][ \A p \in Procs :
           (LoginOrLogoutStep(p) /\ OneActiveToken(tokens))
           => OneActiveToken(tokens') ]_vars

\* The rows of account a itself: its deposits, its withdrawals and its own
\* leg of each transfer it took part in.
OwnRows(rows, a) == SelectSeq(rows, LAMBDA r : r.account = a)

\* C33: the history returned for an account holds exactly the rows of the
\* account itself, each once: its deposits, its withdrawals and, of each
\* transfer it took part in, its own leg and never the leg of the
\* counterpart.
C33_HistoryHasOwnLegsOnly ==
    \A a \in Accounts : TransactionView(ledger, a) = OwnRows(ledger, a)

\* C35: when the deposit, withdrawal and transfer calls run strictly one at
\* a time, the balance of every account is at least 0 after every call, and
\* so is its balance as of every date.
C35_SequentialBalancesNonNegative ==
    \A a \in Accounts :
       /\ Balance(ledger, a) >= 0
       /\ \A d \in 0..clock : BalanceAtDate(ledger, a, d) >= 0

\* A debit has just emptied an account that held money at an earlier date.
C35_Witness ==
    /\ last.outcome = "ok" /\ DebitCall(last.op)
    /\ Balance(ledger, last.account) = 0
    /\ \E d \in 0..clock : BalanceAtDate(ledger, last.account, d) > 0

\* The sum of the balances of the accounts in S.
RECURSIVE TotalBalance(_, _)
TotalBalance(rows, S) ==
    IF S = {} THEN 0
    ELSE LET a == CHOOSE x \in S : TRUE
         IN Balance(rows, a) + TotalBalance(rows, S \ {a})

\* The total amount of the committed rows of one type.
TotalOfType(rows, type) ==
    SumAmount(SelectSeq(rows, LAMBDA r : r.transaction_type = type))

\* C36: in every state reached through deposit, withdrawal and transfer
\* calls, in any interleaving, the balances of all accounts add up to the
\* committed deposits minus the committed withdrawals: a transfer, whether
\* it commits, is rejected or is rolled back, leaves the total as it was.
C36_TotalIsDepositsMinusWithdrawals ==
    TotalBalance(ledger, Accounts)
       = TotalOfType(ledger, "DEPOSIT") - TotalOfType(ledger, "WITHDRAWAL")

\* A transfer has just been rolled back, its debit leg staged, after an
\* earlier transfer committed.
C36_Witness ==
    /\ last.op = "TRANSFER" /\ last.outcome # "ok" /\ last.leg = "credit"
    /\ \E i \in DOMAIN ledger : ledger[i].transaction_type = "TRANSFER"

\* C32: under fair scheduling every deposit, withdrawal or transfer call
\* that has started eventually ends, committed, rejected or rolled back, and
\* its connection is free again; two concurrent transfers between the same
\* two accounts in opposite directions included.
C32_EveryCallEnds ==
    \A p \in Procs : (pc[p] # "idle") ~> (pc[p] = "idle")

\* Two transfers between the same two accounts in opposite directions are
\* inside the service at once, one of them with its debit leg staged.
C32_Witness ==
    \E p \in Procs, q \in Procs :
       /\ p # q
       /\ req[p].op = "TRANSFER" /\ req[q].op = "TRANSFER"
       /\ req[p].account = req[q].to /\ req[p].to = req[q].account
       /\ req[p].account # req[p].to
       /\ Len(staged[p]) > 0
       /\ InService(q)

\* The result of a call that runs alone on a ledger where the account it
\* pays from holds b: the amount and the accounts are checked first, then
\* the balance, and for a transfer the balance again once the debit leg is
\* staged.
AloneOutcome(op, f, t, m, b) ==
    IF m <= 0 THEN "InvalidAmount"
    ELSE IF op = "DEPOSIT" THEN "ok"
    ELSE IF op = "TRANSFER" /\ f = t THEN "SameAccount"
    ELSE IF b < m THEN "InsufficientBalance"
    ELSE IF op = "TRANSFER" /\ b - m < m THEN "InsufficientBalance"
    ELSE "ok"

\* What a call that runs alone and ends with result res adds to the
\* balance of account a.
AloneEffect(op, f, t, m, res, a) ==
    IF res # "ok" THEN 0
    ELSE IF op = "DEPOSIT" THEN (IF a = f THEN m ELSE 0)
    ELSE IF op = "WITHDRAWAL" THEN (IF a = f THEN 0 - m ELSE 0)
    ELSE (IF a = t THEN m ELSE 0) - (IF a = f THEN m ELSE 0)

TypeOK ==
    /\ calls \in 0..MaxCalls
    /\ \A p \in Procs : wrote[p] \in 0..2
====
